---- MODULE Spec2Model ----
(***************************************************************************)
(* A model of packages/api-docs-builder/ApiBuilders/ComponentApiBuilder.ts *)
(* generateComponentApi and the helpers it calls, as a state machine over  *)
(* the file system, the record being built (reactApi) and the position of  *)
(* the run.                                                                *)
(*                                                                         *)
(* Texts are sequences of tokens:                                          *)
(*   - a markdown description is a sequence of lines (records kind/arg);   *)
(*   - a source or declaration file is a sequence of tokens, one token per *)
(*     offset: a whitespace character, a block comment, a statement;       *)
(*   - a raw prop-type signature and a class description are sequences of  *)
(*     words.                                                              *)
(* JavaScript's undefined / null / true / false are the strings            *)
(* "undefined", "null", "true", "false" where a value is three-valued; an  *)
(* optional value is a sequence of length 0 or 1.                          *)
(***************************************************************************)
EXTENDS Integers, Sequences, FiniteSets, TLC

VARIABLES
    env,        \* the component's world: componentInfo, parser and test results
    fs,         \* the file system: path -> content
    pc,         \* position of the run inside generateComponentApi
    reactApi,   \* the record generateComponentApi builds
    result,     \* what the run returned or threw
    calls,      \* the collaborators called by the current run, in order
    writes,     \* the paths written by the current run, in order
    runs,       \* number of finished runs of generateComponentApi
    first,      \* what the first finished run left behind (history)
    tr          \* the concurrent generateApiTranslations runs (SpecTranslations)

vars == <<env, fs, pc, reactApi, result, calls, writes, runs, first, tr>>

---------------------------------------------------------------------------
(* Bounds *)

MaxRuns == 2
MaxItems == 3
MaxDescLines == 3
MaxProps == 3
MaxRaw == 2
MaxDemos == 2
MaxWords == 5
MaxClasses == 2
MaxTrRuns == 2

---------------------------------------------------------------------------
(* Generic helpers *)

None == <<>>
Some(v) == <<v>>

Min(a, b) == IF a < b THEN a ELSE b
Max(a, b) == IF a > b THEN a ELSE b

RECURSIVE SeqsUpTo(_, _)
\* all sequences over S of length 0..n
SeqsUpTo(S, n) ==
    IF n = 0 THEN {<<>>}
    ELSE LET shorter == SeqsUpTo(S, n - 1)
         IN  shorter \cup {Append(s, x) : s \in {t \in shorter : Len(t) = n - 1}, x \in S}


\* String.prototype.slice / Array.prototype.slice on a token sequence:
\* 0-based, end exclusive, a negative index counts from the end.
JsSlice(s, a, b) ==
    LET n  == Len(s)
        a0 == IF a < 0 THEN Max(n + a, 0) ELSE Min(a, n)
        b0 == IF b < 0 THEN Max(n + b, 0) ELSE Min(b, n)
    IN  IF a0 >= b0 THEN <<>> ELSE SubSeq(s, a0 + 1, b0)

\* s.slice(a): to the end
JsSliceFrom(s, a) == JsSlice(s, a, Len(s))

---------------------------------------------------------------------------
(* Markdown descriptions: sequences of lines *)

Line(kind, arg) == [kind |-> kind, arg |-> arg]

PlainLine == Line("text", "plain")      \* a line of prose
RelLine == Line("text", "rel")          \* a line holding a link whose url starts with /
AbsLine == Line("text", "abs")          \* the same link with the host in front
BlankLine == Line("blank", "")
DemosHeader == Line("header", "Demos:")
ApiHeader == Line("header", "API:")

RECURSIVE TrimStart(_)
TrimStart(d) == IF d # <<>> /\ Head(d) = BlankLine THEN TrimStart(Tail(d)) ELSE d

RECURSIVE TrimEnd(_)
TrimEnd(d) ==
    IF d # <<>> /\ d[Len(d)] = BlankLine THEN TrimEnd(SubSeq(d, 1, Len(d) - 1)) ELSE d

\* String.prototype.trim on a text of lines
Trim(d) == TrimEnd(TrimStart(d))

\* computeApiDescription: urls that start with / get the host, the result is trimmed
computeApiDescription(description) ==
    Trim([i \in 1..Len(description) |->
            IF description[i] = RelLine THEN AbsLine ELSE description[i]])

\* description.match(/(Demos|API):\r?\n\r?\n/): index of the first header line that
\* an empty line and one more line follow (two line breaks), 0 when there is none
annotatedDescriptionMatch(description) ==
    LET hits == {i \in 1..Len(description) - 2 :
                    /\ description[i].kind = "header"
                    /\ description[i + 1] = BlankLine}
    IN  IF hits = {} THEN 0 ELSE CHOOSE i \in hits : \A j \in hits : i <= j

\* generateComponentApi, "Ignore what we might have generated in annotateComponentDefinition"
StripAnnotated(description) ==
    LET m == annotatedDescriptionMatch(description)
    IN  IF m # 0 THEN Trim(SubSeq(description, 1, m - 1)) ELSE description

---------------------------------------------------------------------------
(* Source and declaration files: sequences of tokens.  The token at index  *)
(* i starts at offset i - 1 and ends at offset i.                          *)
(*   ws        one whitespace character (a line break)                     *)
(*   cb        a block comment; body is its text                           *)
(*   decl      a local declaration of `name`: form "var" (const / declare  *)
(*             const) or "fun" (function declaration)                      *)
(*   expdef    export default: form "id" (export default <name>;) or       *)
(*             "inline" (export default function <name>() {})              *)
(*   expnamed  a named export: form "spec" (export { <name> };) or "other" *)
(*             (export const / declare function / type <name>)             *)
(*   expkw     the keyword of `export function <name>() {}`: the tokens    *)
(*             expkw, ws, decl(fun) are one ExportNamedDeclaration whose   *)
(*             declaration starts at the decl token                        *)
(* Line comments are not in the alphabet.                                  *)
(***************************************************************************)

Tok(k, form, name, body) == [k |-> k, form |-> form, name |-> name, body |-> body]

Ws == Tok("ws", "", "", <<>>)
Cb(body) == Tok("cb", "", "", body)
Decl(form, name) == Tok("decl", form, name, <<>>)
ExpDef(form, name) == Tok("expdef", form, name, <<>>)
ExpNamed(form, name) == Tok("expnamed", form, name, <<>>)
ExpKw == Tok("expkw", "", "", <<>>)

\* the declaration of `export function f() {}`: the first decl token after the keyword
InnerDecl(toks, i) ==
    CHOOSE j \in (i + 1)..Len(toks) :
        /\ toks[j].k = "decl"
        /\ \A m \in (i + 1)..(j - 1) : toks[m].k # "decl"

RECURSIVE LeadingFrom(_, _)
\* the block comments before index i, back to the previous token that is neither
\* whitespace nor a comment, in source order
LeadingFrom(toks, i) ==
    IF i < 1 THEN <<>>
    ELSE IF toks[i].k = "ws" THEN LeadingFrom(toks, i - 1)
    ELSE IF toks[i].k = "cb" THEN Append(LeadingFrom(toks, i - 1), i)
    ELSE <<>>

\* node.leadingComments filtered to CommentBlock: the indexes of the comments
\* attached in front of the node at index i
leadingCommentBlocks(toks, i) == LeadingFrom(toks, i - 1)

\* babelPath.scope.bindings[name]: index of the declaration of name, 0 when unbound
Binding(toks, name) ==
    LET ds == {i \in 1..Len(toks) : toks[i].k = "decl" /\ toks[i].name = name}
    IN  IF ds = {} THEN 0 ELSE CHOOSE i \in ds : \A j \in ds : i <= j

\* The state of the traversal of annotateComponentDefinition:
\* start, end (None is null) and the error thrown by a visitor ("" for none).
Cursor(start, end, err) == [start |-> start, end |-> end, err |-> err]

\* the tail both visitors share: at most one leading block comment, which gives
\* the range to replace; without one the range is empty, one character before the node
SetRange(toks, node, cur) ==
    LET blocks == leadingCommentBlocks(toks, node)
    IN  IF Len(blocks) > 1 THEN Cursor(cur.start, cur.end, "MultipleJsdocBlocks")
        ELSE IF Len(blocks) = 1 THEN Cursor(blocks[1] - 1, Some(blocks[1]), "")
        ELSE Cursor((node - 1) - 1, Some((node - 1) - 1), "")

\* visitor ExportDefaultDeclaration at index i
ExportDefaultDeclaration(toks, i, isBase, cur) ==
    IF isBase THEN cur
    ELSE IF toks[i].form = "id" /\ Binding(toks, toks[i].name) = 0
         THEN Cursor(cur.start, cur.end, "TypeError")
    ELSE SetRange(toks,
                  IF toks[i].form = "id" THEN Binding(toks, toks[i].name) ELSE i,
                  cur)

\* visitor ExportNamedDeclaration at index i (an expnamed or an expkw token)
ExportNamedDeclaration(toks, i, isBase, fileName, cur) ==
    IF ~isBase THEN cur
    ELSE IF toks[i].k = "expkw"
         THEN \* export function f() {}: the declaration when it is the component's
              SetRange(toks,
                       IF toks[InnerDecl(toks, i)].name = fileName
                       THEN InnerDecl(toks, i) ELSE i,
                       cur)
    ELSE IF toks[i].form = "spec"
         THEN IF toks[i].name = fileName
              THEN IF Binding(toks, fileName) = 0
                   THEN Cursor(cur.start, cur.end, "TypeError")
                   ELSE SetRange(toks, Binding(toks, fileName), cur)
              ELSE SetRange(toks, i, cur)
    ELSE cur

RECURSIVE Traverse(_, _, _, _, _)
\* traverse(typesAST, {...}): the visitors run on the exports in source order and
\* the first error ends the traversal
Traverse(toks, i, isBase, fileName, cur) ==
    IF i > Len(toks) \/ cur.err # "" THEN cur
    ELSE Traverse(toks, i + 1, isBase, fileName,
            IF toks[i].k = "expdef" THEN ExportDefaultDeclaration(toks, i, isBase, cur)
            ELSE IF toks[i].k \in {"expnamed", "expkw"}
                 THEN ExportNamedDeclaration(toks, i, isBase, fileName, cur)
            ELSE cur)

\* the lines of the generated comment: description, Demos and API links
JsdocLines(api) ==
    LET md == computeApiDescription(api.description)
        split == IF md = <<>> THEN <<BlankLine>> ELSE md      \* "".split('\n') is ['']
        lines == IF split[Len(split)] # BlankLine THEN Append(split, BlankLine) ELSE split
    IN  lines
        \o <<DemosHeader, BlankLine>>
        \o [i \in 1..Len(api.demos) |-> Line("demo", api.demos[i])]
        \o <<BlankLine>>
        \o <<ApiHeader, BlankLine, Line("api", api.name)>>
        \o (IF api.inheritance # "null" THEN <<Line("inherits", api.inheritance)>> ELSE <<>>)

\* annotateComponentDefinition on the text of the declaration file:
\* [err, text]; text is the rewritten file when err = ""
annotateComponentDefinition(api, typesSource, isBase) ==
    LET cur == Traverse(typesSource, 1, isBase, api.name, Cursor(0, None, ""))
    IN  IF cur.err # "" THEN [err |-> cur.err, text |-> typesSource]
        ELSE IF cur.end = None \/ cur.start = 0
             THEN [err |-> "DontKnowWhereToInsert", text |-> typesSource]
        ELSE [err |-> "",
              text |-> JsSlice(typesSource, 0, cur.start)
                       \o <<Cb(JsdocLines(api))>>
                       \o JsSliceFrom(typesSource, cur.end[1])]

---------------------------------------------------------------------------
(* JavaScript objects: a sequence of [key, value] in own-property order:   *)
(* array-index keys first, in ascending numeric order, then the other keys *)
(* in insertion order.                                                     *)
(***************************************************************************)

Pair(key, value) == [key |-> key, value |-> value]

PropNames == {"0", "1", "a", "B", "undefined"}

\* the canonical array indexes among the names
IsArrayIndex(key) == key \in {"0", "1"}
IndexValue(key) == IF key = "0" THEN 0 ELSE 1

Keys(obj) == [i \in 1..Len(obj) |-> obj[i].key]
HasKey(obj, key) == \E i \in 1..Len(obj) : obj[i].key = key

\* obj[key] = value
JsSet(obj, key, value) ==
    IF HasKey(obj, key)
    THEN [i \in 1..Len(obj) |-> IF obj[i].key = key THEN Pair(key, value) ELSE obj[i]]
    ELSE IF IsArrayIndex(key)
         THEN LET before == {i \in 1..Len(obj) :
                                /\ IsArrayIndex(obj[i].key)
                                /\ IndexValue(obj[i].key) < IndexValue(key)}
                  n == Cardinality(before)
              IN  SubSeq(obj, 1, n) \o <<Pair(key, value)>> \o SubSeq(obj, n + 1, Len(obj))
    ELSE Append(obj, Pair(key, value))

\* delete obj[key]
JsDelete(obj, key) == SelectSeq(obj, LAMBDA e : e.key # key)

RECURSIVE FromPairsInto(_, _)
FromPairsInto(obj, pairs) ==
    IF pairs = <<>> THEN obj
    ELSE FromPairsInto(JsSet(obj, Head(pairs).key, Head(pairs).value), Tail(pairs))

\* _.fromPairs(pairs)
fromPairs(pairs) == FromPairsInto(<<>>, pairs)

\* a sequence of pairs is a JavaScript object as Object.entries lists it
IsJsObject(obj) ==
    /\ \A i, j \in 1..Len(obj) : i # j => obj[i].key # obj[j].key
    /\ fromPairs(obj) = obj

\* String.prototype.localeCompare on the prop names: digits before letters, letters
\* without regard to case first
LocaleRank(name) ==
    CASE name = "0" -> 0
      [] name = "1" -> 1
      [] name = "a" -> 2
      [] name = "B" -> 3
      [] name = "undefined" -> 4
      [] OTHER -> 5

localeCompare(a, b) ==
    IF LocaleRank(a) < LocaleRank(b) THEN -1
    ELSE IF LocaleRank(a) > LocaleRank(b) THEN 1 ELSE 0

---------------------------------------------------------------------------
(* Props *)

\* A raw prop descriptor of reactApi.props, with what the helpers outside this
\* file make of it:
\*   fails     createDescribeableProp throws on it
\*   required  the required flag of the normalized descriptor
\*   raw       prop.type.raw as words; ".isRequired" is the marker
\*   chained   getChained(prop.type): "false", or the required flag of the chained
\*             type, "required" / "optional"
\*   typeName  propDescriptor.type.name
\*   rendered  generatePropTypeDescription(propDescriptor.type)
RawProp(name, fails, required, raw, chained, typeName, rendered) ==
    [name |-> name, fails |-> fails, required |-> required, raw |-> raw,
     chained |-> chained, typeName |-> typeName, rendered |-> rendered]

\* createDescribeableProp(propDescriptor, propName): None when it throws
createDescribeableProp(propDescriptor) ==
    IF propDescriptor.fails THEN None ELSE Some(propDescriptor)

getChained(prop) == prop.chained

generatePropTypeDescription(propDescriptor) == propDescriptor.rendered

\* /\.isRequired/.test(prop.type.raw)
TestIsRequired(raw) == \E i \in 1..Len(raw) : raw[i] = ".isRequired"

requiredProp(prop) ==
    \/ prop.required
    \/ TestIsRequired(prop.raw)
    \/ (getChained(prop) # "false" /\ getChained(prop) = "required")

\* PropsTableEntry that keeps the rendered type text whatever it is
PropsTableEntryAlwaysDescribed(propDescriptor) ==
    LET prop == createDescribeableProp(propDescriptor)[1]
    IN  [defined |-> TRUE,
         required |-> IF requiredProp(prop) THEN "true" ELSE "undefined",
         typeName |-> propDescriptor.typeName,
         typeDescription |-> Some(generatePropTypeDescription(propDescriptor))]

\* the entry of the props table; required is true or undefined
PropsTableEntry(propDescriptor) ==
    LET prop == createDescribeableProp(propDescriptor)[1]
        propTypeDescription == generatePropTypeDescription(propDescriptor)
    IN  [defined |-> TRUE,
         required |-> IF requiredProp(prop) THEN "true" ELSE "undefined",
         typeName |-> propDescriptor.typeName,
         typeDescription |-> IF propTypeDescription # propDescriptor.typeName
                             THEN Some(propTypeDescription) ELSE None]

\* the value `undefined`, which _.fromPairs stores for the pair []
UndefinedEntry ==
    [defined |-> FALSE, required |-> "undefined", typeName |-> "", typeDescription |-> None]

\* the pairs attachPropsTable maps the props to: [] for a prop that failed, and [] is
\* the pair of key "undefined" and value undefined
PropPairs(props) ==
    [i \in 1..Len(props) |->
        IF createDescribeableProp(props[i]) = None
        THEN Pair("undefined", UndefinedEntry)
        ELSE Pair(props[i].name, PropsTableEntry(props[i]))]

\* propErrors: the names of the props that failed, in the order of the props
PropErrors(props) ==
    LET failed == SelectSeq(props, LAMBDA d : createDescribeableProp(d) = None)
    IN  [i \in 1..Len(failed) |-> failed[i].name]

\* attachPropsTable aborting on the first prop that fails
attachPropsTableFirstError(api) ==
    LET propErrors == PropErrors(api.props)
        firstFailed == CHOOSE i \in 1..Len(api.props) :
                          /\ api.props[i].fails
                          /\ \A j \in 1..(i - 1) : ~api.props[j].fails
    IN  IF Len(propErrors) > 0
        THEN [errors |-> <<propErrors[1]>>, processed |-> firstFailed, propsTable |-> None]
        ELSE [errors |-> <<>>, processed |-> Len(api.props),
              propsTable |-> Some(JsDelete(fromPairs(PropPairs(api.props)), "undefined"))]

\* attachPropsTable(reactApi): [errors, processed, propsTable]; propsTable is None when
\* it throws; processed counts the props createDescribeableProp was called on
attachPropsTable(api) ==
    LET propErrors == PropErrors(api.props)
        componentProps == fromPairs(PropPairs(api.props))
    IN  [errors |-> propErrors,
         processed |-> Len(api.props),
         propsTable |-> IF Len(propErrors) > 0 THEN None
                        ELSE Some(JsDelete(componentProps, "undefined"))]

\* the comparator of generateApiPage: "Sorted by required DESC, name ASC"
ComparePropEntries(a, b) ==
    IF (a.value.required = "true" /\ b.value.required = "true")
       \/ (a.value.required # "true" /\ b.value.required # "true")
    THEN localeCompare(a.key, b.key)
    ELSE IF a.value.required = "true" THEN -1 ELSE 1

\* stable insertion of e into a sorted sequence
InsertSorted(sorted, e) ==
    LET after == {i \in 1..Len(sorted) : ComparePropEntries(e, sorted[i]) < 0}
        n == IF after = {} THEN Len(sorted)
             ELSE (CHOOSE i \in after : \A j \in after : i <= j) - 1
    IN  SubSeq(sorted, 1, n) \o <<e>> \o SubSeq(sorted, n + 1, Len(sorted))

RECURSIVE SortInto(_, _)
SortInto(sorted, rest) ==
    IF rest = <<>> THEN sorted ELSE SortInto(InsertSorted(sorted, Head(rest)), Tail(rest))

\* Object.entries(propsTable).sort(comparator)
SortPropEntries(entries) == SortInto(<<>>, entries)

\* JSON.stringify of a three-valued field: a key whose value is undefined is left out
JsonValue(v) == IF v = "undefined" THEN "omitted" ELSE v

\* generateApiPage: the page content written to the component's JSON file
PageContent(api) ==
    [props |-> fromPairs(SortPropEntries(api.propsTable[1])),
     name |-> api.name,
     spread |-> JsonValue(api.spread),
     themeDefaultProps |-> JsonValue(api.themeDefaultProps),
     forwardsRefTo |-> JsonValue(api.forwardsRefTo),
     inheritance |-> api.inheritance,
     demos |-> api.demos]

---------------------------------------------------------------------------
(* Class descriptions: sequences of words *)

PrefixWords == {"Styles applied to ", "State class applied to ", "Class name applied to "}
SeparatorWords == {" if ", " unless ", " when ", ", "}
RootElement == "the root element"
Period == "."

\* the markdown renderer of @mui/markdown: the words are kept, markup is not modelled
renderMarkdown(words) == words

\* conditions[6].replace(...): a word in backticks becomes a <code> element
\* (the word written "<backtick>dense<backtick>" stands for dense in backticks)
CodeTags(words) ==
    [i \in 1..Len(words) |->
        IF words[i] = "<backtick>dense<backtick>" THEN "<code>dense</code>" ELSE words[i]]

\* The match of stylesRegex that starts at the prefix word at index p:
\* one of the prefixes (groups 1, 2), any text (group 3, lazy), optionally a
\* separator (group 5) and any text (group 6, greedy), then a period.
\* group 3 is lazy: it ends at the first word q that is a period, or a separator
\* with a period somewhere after it; group 6 is greedy: it runs to the last period.
\* [found, p, q, sep, last]: sep is FALSE when group 4 did not take part.
RegexAt(description, p) ==
    LET n == Len(description)
        periods(q) == {r \in (q + 1)..n : description[r] = Period}
        stops == {q \in (p + 1)..n :
                    \/ description[q] = Period
                    \/ (description[q] \in SeparatorWords /\ periods(q) # {})}
    IN  IF stops = {} THEN [found |-> FALSE, p |-> p, q |-> 0, sep |-> FALSE, last |-> 0]
        ELSE LET q == CHOOSE x \in stops : \A y \in stops : x <= y
             IN  IF description[q] \in SeparatorWords
                 THEN [found |-> TRUE, p |-> p, q |-> q, sep |-> TRUE,
                       last |-> CHOOSE r \in periods(q) : \A r2 \in periods(q) : r2 <= r]
                 ELSE [found |-> TRUE, p |-> p, q |-> q, sep |-> FALSE, last |-> q]

\* description.match(stylesRegex): the leftmost match
stylesRegex(description) ==
    LET starts == {p \in 1..Len(description) :
                      /\ description[p] \in PrefixWords
                      /\ RegexAt(description, p).found}
    IN  IF starts = {} THEN [found |-> FALSE, p |-> 0, q |-> 0, sep |-> FALSE, last |-> 0]
        ELSE RegexAt(description, CHOOSE p \in starts : \A p2 \in starts : p <= p2)

Group3(description, m) == SubSeq(description, m.p + 1, m.q - 1)
\* group 6: None when group 4 did not take part (undefined)
Group6(description, m) ==
    IF m.sep THEN Some(SubSeq(description, m.q + 1, m.last - 1)) ELSE None

\* description.replace(stylesRegex, template): $1 and $5 are kept, the rest of the
\* match is replaced, the text around the match is kept
ReplaceMatch(description, m, withConditions) ==
    SubSeq(description, 1, m.p)
    \o <<"{{nodeName}}">>
    \o (IF m.sep THEN <<description[m.q]>> ELSE <<>>)
    \o (IF withConditions THEN <<"{{conditions}}">> ELSE <<>>)
    \o <<Period>>
    \o SubSeq(description, m.last + 1, Len(description))

ClassCondition(description, nodeName, conditions) ==
    [description |-> description, nodeName |-> nodeName, conditions |-> conditions]

\* ClassConditionOf without the test for the root element
ClassConditionOfAnyTarget(description) ==
    LET m == stylesRegex(description)
    IN  IF m.found /\ Group6(description, m) # None /\ Group6(description, m)[1] # <<>>
        THEN ClassCondition(renderMarkdown(ReplaceMatch(description, m, TRUE)),
                            Some(renderMarkdown(Group3(description, m))),
                            Some(renderMarkdown(CodeTags(Group6(description, m)[1]))))
        ELSE IF m.found /\ Group3(description, m) # <<>>
        THEN ClassCondition(renderMarkdown(ReplaceMatch(description, m, FALSE)),
                            Some(renderMarkdown(Group3(description, m))),
                            None)
        ELSE ClassCondition(renderMarkdown(description), None, None)

\* the entry extractClassConditions records for one class description
ClassConditionOf(description) ==
    LET m == stylesRegex(description)
    IN  IF m.found /\ Group6(description, m) # None /\ Group6(description, m)[1] # <<>>
        THEN ClassCondition(renderMarkdown(ReplaceMatch(description, m, TRUE)),
                            Some(renderMarkdown(Group3(description, m))),
                            Some(renderMarkdown(CodeTags(Group6(description, m)[1]))))
        ELSE IF m.found /\ Group3(description, m) # <<>>
                /\ Group3(description, m) # <<RootElement>>
        THEN ClassCondition(renderMarkdown(ReplaceMatch(description, m, FALSE)),
                            Some(renderMarkdown(Group3(description, m))),
                            None)
        ELSE ClassCondition(renderMarkdown(description), None, None)

RECURSIVE ExtractInto(_, _)
ExtractInto(obj, descriptions) ==
    IF descriptions = <<>> THEN obj
    ELSE ExtractInto(
            IF Head(descriptions).key # ""
            THEN JsSet(obj, Head(descriptions).key, ClassConditionOf(Head(descriptions).value))
            ELSE obj,
            Tail(descriptions))

\* extractClassConditions(descriptions): descriptions is an object key -> description
extractClassConditions(descriptions) == ExtractInto(<<>>, descriptions)

\* attachTranslations(reactApi): the translations bundle
attachTranslations(api) ==
    LET described == SelectSeq(api.props, LAMBDA d : createDescribeableProp(d) # None)
        propDescriptions ==
            fromPairs([i \in 1..Len(described) |-> Pair(described[i].name, "description")])
        classDescriptions ==
            fromPairs([i \in 1..Len(api.classes) |->
                            Pair(api.classes[i].key, api.classes[i].description)])
    IN  [componentDescription |-> api.description,
         propDescriptions |-> propDescriptions,
         classDescriptions |-> extractClassConditions(classDescriptions),
         slotDescriptions |-> IF Len(api.slots) > 0 THEN Some(api.slots) ELSE None]

---------------------------------------------------------------------------
(* The file system *)

Path(tree, dir, name, ext) == [tree |-> tree, dir |-> dir, name |-> name, ext |-> ext]

\* a file name of a component: package directory, base name and extension
Filename(pkg, name, ext) == [pkg |-> pkg, name |-> name, ext |-> ext]
SourcePath(filename) == Path("packages", filename.pkg, filename.name, filename.ext)

\* api.filename.replace(/\.js$/, '.d.ts')
typesFilename(filename) ==
    IF filename.ext = "js" THEN Filename(filename.pkg, filename.name, "d.ts") ELSE filename

\* api.filename.includes('mui-base')
IncludesMuiBase(filename) == filename.pkg = "mui-base"

\* lodash kebabCase on the component names of the model
kebabCase(name) ==
    CASE name = "Menu" -> "menu"
      [] name = "MenuItem" -> "menu-item"
      [] OTHER -> name

\* resolveApiDocsTranslationsComponentLanguagePath(language)
TranslationPath(componentName, language) ==
    Path("translations", kebabCase(componentName), kebabCase(componentName),
         IF language = "en" THEN "" ELSE language)

\* path.resolve(apiPagesDirectory, kebabCase(name) + '.json' / '.js')
ApiPagePath(componentName, ext) == Path("pages", "", kebabCase(componentName), ext)

Absent == [t |-> "absent", v |-> <<>>]
Text(toks) == [t |-> "text", v |-> toks]
Json(v) == [t |-> "json", v |-> v]
PageModule(name) == [t |-> "module", v |-> <<name>>]
\* a translation file a translator has edited
Manual == [t |-> "manual", v |-> <<>>]

\* writePrettifiedFile(filename, data, undefined, options): with the flag 'wx' the file
\* is created exclusively and the call throws when it exists; [fs, threw]
writePrettifiedFile(files, path, data, exclusive) ==
    IF exclusive /\ files[path] # Absent
    THEN [fs |-> files, threw |-> TRUE]
    ELSE [fs |-> [files EXCEPT ![path] = data], threw |-> FALSE]

\* the write of the 'en' file in generateApiTranslations
WriteEnglish(files, componentName, translations) ==
    writePrettifiedFile(files, TranslationPath(componentName, "en"), Json(translations), FALSE)

\* WriteLanguage without the flag 'wx'
WriteLanguageOverwriting(files, componentName, translations, language) ==
    IF language # "en"
    THEN [fs |-> [files EXCEPT ![TranslationPath(componentName, language)] = Json(translations)],
          threw |-> FALSE, wrote |-> TRUE]
    ELSE [fs |-> files, threw |-> FALSE, wrote |-> FALSE]

\* one round of languages.forEach in generateApiTranslations: 'en' is skipped, the
\* others are created with the flag 'wx' and the error of an existing file is swallowed
WriteLanguage(files, componentName, translations, language) ==
    IF language # "en"
    THEN LET w == writePrettifiedFile(files, TranslationPath(componentName, language),
                                      Json(translations), TRUE)
         IN  [fs |-> w.fs, threw |-> FALSE, wrote |-> ~w.threw]
    ELSE [fs |-> files, threw |-> FALSE, wrote |-> FALSE]

RECURSIVE WriteLanguages(_, _, _, _, _)
\* languages.forEach(...): [fs, written], written lists the paths created
WriteLanguages(files, componentName, translations, languages, written) ==
    IF languages = <<>> THEN [fs |-> files, written |-> written]
    ELSE LET w == WriteLanguage(files, componentName, translations, Head(languages))
         IN  WriteLanguages(w.fs, componentName, translations, Tail(languages),
                            IF w.wrote
                            THEN Append(written, TranslationPath(componentName, Head(languages)))
                            ELSE written)

\* generateApiTranslations(outputDirectory, reactApi, languages): [fs, written]
generateApiTranslations(files, api, languages) ==
    LET en == WriteEnglish(files, api.name, api.translations[1])
    IN  WriteLanguages(en.fs, api.name, api.translations[1], languages,
                       <<TranslationPath(api.name, "en")>>)

\* generateApiPage(apiPagesDirectory, translationPagesDirectory, reactApi, onlyJsonFile):
\* [fs, written]
generateApiPage(files, api, onlyJsonFile) ==
    LET json == writePrettifiedFile(files, ApiPagePath(api.name, "json"),
                                    Json(PageContent(api)), FALSE)
        js == writePrettifiedFile(json.fs, ApiPagePath(api.name, "js"),
                                  PageModule(api.name), FALSE)
    IN  IF onlyJsonFile
        THEN [fs |-> json.fs, written |-> <<ApiPagePath(api.name, "json")>>]
        ELSE [fs |-> js.fs,
              written |-> <<ApiPagePath(api.name, "json"), ApiPagePath(api.name, "js")>>]

---------------------------------------------------------------------------
(* react-docgen on the source text *)

\* the statement that carries the docblock of the component: its declaration, or the
\* export statement the declaration is part of; 0 when the text declares no component
ComponentStatement(toks, name) ==
    LET b == Binding(toks, name)
        exports == {i \in 1..Len(toks) : toks[i].k = "expdef" /\ toks[i].form = "inline"}
        kws == {i \in 1..Len(toks) : toks[i].k = "expkw" /\ InnerDecl(toks, i) = b}
    IN  IF b # 0
        THEN (IF kws # {} THEN CHOOSE i \in kws : TRUE ELSE b)
        ELSE IF exports # {} THEN CHOOSE i \in exports : \A j \in exports : i <= j
        ELSE 0

\* the description docgen reads: the trimmed text of the last block comment in front
\* of the component's statement, empty without one
DocgenDescription(toks, name) ==
    LET c == ComponentStatement(toks, name)
        blocks == IF c = 0 THEN <<>> ELSE leadingCommentBlocks(toks, c)
    IN  IF blocks = <<>> THEN <<>> ELSE Trim(toks[blocks[Len(blocks)]].body)

---------------------------------------------------------------------------
(* generateComponentApi *)

\* a || b, which a slip would write for a ?? b
NullishAsOr(a, b) == IF a \in {"undefined", "null", "false"} THEN b ELSE a

\* a ?? b
Nullish(a, b) == IF a \in {"undefined", "null"} THEN b ELSE a

\* reactApi before the parser has filled it
EmptyApi ==
    [description |-> <<>>, props |-> <<>>, filename |-> Filename("", "", ""), name |-> "",
     apiPathname |-> "", demos |-> <<>>, forwardsRefTo |-> "undefined",
     spread |-> "undefined", themeDefaultProps |-> "undefined", inheritance |-> "null",
     slots |-> <<>>, classes |-> <<>>, propsTable |-> None, translations |-> None]

Outcome(status, error, component, props) ==
    [status |-> status, error |-> error, component |-> component, props |-> props]

Running == Outcome("running", "", "", <<>>)
ReturnedNull == Outcome("null", "", "", <<>>)
Returned == Outcome("returned", "", "", <<>>)
Threw(error, component, props) == Outcome("threw", error, component, props)

\* what a finished run leaves behind
Snapshot(set, files, api, res) == [set |-> set, fs |-> files, api |-> api, result |-> res]

\* the run ends with res, leaving the files `files` and the record `api`
Finish(res, files, api) ==
    /\ pc' = "done"
    /\ result' = res
    /\ runs' = runs + 1
    /\ first' = IF runs = 0 THEN Snapshot(TRUE, files, api, res) ELSE first

\* const { shouldSkip, spread, EOL, src } = componentInfo.readFile(); if (shouldSkip) return null
ReadFile ==
    /\ pc = "start"
    /\ calls' = Append(calls, "readFile")
    /\ IF env.shouldSkip
       THEN Finish(ReturnedNull, fs, reactApi)
       ELSE pc' = "parse" /\ UNCHANGED <<result, runs, first>>
    /\ UNCHANGED <<env, fs, reactApi, writes, tr>>

\* the docgenParse calls: the factory lookup for a system component, the default
\* detection otherwise or after 'No suitable component definition found.'
DocgenAttemptsRetryAnyFailure ==
    IF env.isSystemComponent
    THEN IF env.factoryParse # "ok"
         THEN <<"docgenParse:factory", "docgenParse:default">>
         ELSE <<"docgenParse:factory">>
    ELSE <<"docgenParse:default">>

DocgenAttempts ==
    IF env.isSystemComponent
    THEN IF env.factoryParse = "none"
         THEN <<"docgenParse:factory", "docgenParse:default">>
         ELSE <<"docgenParse:factory">>
    ELSE <<"docgenParse:default">>

DocgenOutcome ==
    IF env.isSystemComponent /\ env.factoryParse # "none"
    THEN env.factoryParse
    ELSE env.defaultParse

Parse ==
    /\ pc = "parse"
    /\ calls' = calls \o DocgenAttempts
    /\ IF DocgenOutcome = "ok"
       THEN /\ reactApi' = [reactApi EXCEPT
                    !.description = DocgenDescription(fs[SourcePath(env.filename)].v, env.name),
                    !.props = env.props]
            /\ pc' = "describe"
            /\ UNCHANGED <<result, runs, first>>
       ELSE /\ Finish(Threw("DocgenError", "", <<>>), fs, reactApi)
            /\ UNCHANGED reactApi
    /\ UNCHANGED <<env, fs, writes, tr>>

\* reactApi.demos.length === 0, with the off-by-one a slip would make of it
MissingDemosOffByOne(api) == Len(api.demos) <= 1

\* reactApi.demos.length === 0
MissingDemos(api) == Len(api.demos) = 0

\* the annotated trailer is stripped, the fields of componentInfo are copied, and
\* without a demo the run throws
Describe ==
    /\ pc = "describe"
    /\ calls' = Append(calls, "getDemos")
    /\ reactApi' = [reactApi EXCEPT
            !.description = StripAnnotated(@),
            !.filename = env.filename,
            !.name = env.name,
            !.apiPathname = env.apiPathname,
            !.demos = env.demos]
    /\ IF MissingDemos(reactApi')
       THEN Finish(Threw("MissingDemo", reactApi'.name, <<>>), fs, reactApi')
       ELSE pc' = "parseTest" /\ UNCHANGED <<result, runs, first>>
    /\ UNCHANGED <<env, fs, writes, tr>>

\* const testInfo = await parseTest(filename); the test-derived fields
ParseTest ==
    /\ pc = "parseTest"
    /\ calls' = calls \o <<"parseTest", "getInheritance">>
    /\ reactApi' = [reactApi EXCEPT
            !.forwardsRefTo = env.test.forwardsRefTo,
            !.spread = Nullish(env.test.spread, env.spread),
            !.themeDefaultProps = env.test.themeDefaultProps,
            !.inheritance = env.inheritance]
    /\ pc' = "slots"
    /\ UNCHANGED <<env, fs, result, writes, runs, first, tr>>

ParseSlotsAndClasses ==
    /\ pc = "slots"
    /\ calls' = Append(calls, "parseSlotsAndClasses")
    /\ reactApi' = [reactApi EXCEPT !.slots = env.slots, !.classes = env.classes]
    /\ pc' = "propsTable"
    /\ UNCHANGED <<env, fs, result, writes, runs, first, tr>>

AttachPropsTable ==
    /\ pc = "propsTable"
    /\ LET r == attachPropsTable(reactApi)
       IN  /\ calls' = calls \o <<"attachPropsTable">>
                             \o [i \in 1..r.processed |-> "createDescribeableProp"]
           /\ IF r.propsTable = None
              THEN /\ Finish(Threw("PropErrors", reactApi.name, r.errors), fs, reactApi)
                   /\ UNCHANGED reactApi
              ELSE /\ reactApi' = [reactApi EXCEPT !.propsTable = r.propsTable]
                   /\ pc' = "translations"
                   /\ UNCHANGED <<result, runs, first>>
    /\ UNCHANGED <<env, fs, writes, tr>>

\* attachTranslations(reactApi); with skipApiGeneration the record is returned here
AttachTranslations ==
    /\ pc = "translations"
    /\ calls' = Append(calls, "attachTranslations")
    /\ reactApi' = [reactApi EXCEPT !.translations = Some(attachTranslations(reactApi))]
    /\ IF env.skipApiGeneration
       THEN Finish(Returned, fs, reactApi')
       ELSE pc' = "writeTranslations" /\ UNCHANGED <<result, runs, first>>
    /\ UNCHANGED <<env, fs, writes, tr>>

GenerateApiTranslations ==
    /\ pc = "writeTranslations"
    /\ LET w == generateApiTranslations(fs, reactApi, env.languages)
       IN  fs' = w.fs /\ writes' = writes \o w.written
    /\ calls' = Append(calls, "generateApiTranslations")
    /\ pc' = "writePage"
    /\ UNCHANGED <<env, reactApi, result, runs, first, tr>>

\* the page module written for every API path
GenerateOnlyJsonFileNever(api) == FALSE

\* normalizedApiPathname.startsWith('/base')
GenerateOnlyJsonFile(api) == api.apiPathname = "/base"

GenerateApiPage ==
    /\ pc = "writePage"
    /\ LET w == generateApiPage(fs, reactApi, GenerateOnlyJsonFile(reactApi))
       IN  fs' = w.fs /\ writes' = writes \o w.written
    /\ calls' = Append(calls, "generateApiPage")
    /\ pc' = "annotate"
    /\ UNCHANGED <<env, reactApi, result, runs, first, tr>>

AnnotateComponentDefinition ==
    /\ pc = "annotate"
    /\ calls' = Append(calls, "annotateComponentDefinition")
    /\ LET typesPath == SourcePath(typesFilename(reactApi.filename))
           a == annotateComponentDefinition(reactApi, fs[typesPath].v,
                                            IncludesMuiBase(reactApi.filename))
       IN  IF a.err # ""
           THEN /\ Finish(Threw(a.err, "", <<>>), fs, reactApi)
                /\ UNCHANGED <<fs, writes>>
           ELSE /\ fs' = [fs EXCEPT ![typesPath] = Text(a.text)]
                /\ writes' = Append(writes, typesPath)
                /\ Finish(Returned, fs', reactApi)
    /\ UNCHANGED <<env, reactApi, tr>>

\* the build runs again on the same component
Rerun ==
    /\ pc = "done"
    /\ runs < MaxRuns
    /\ pc' = "start"
    /\ reactApi' = EmptyApi
    /\ result' = Running
    /\ calls' = <<>>
    /\ writes' = <<>>
    /\ UNCHANGED <<env, fs, runs, first, tr>>

Next ==
    \/ ReadFile
    \/ Parse
    \/ Describe
    \/ ParseTest
    \/ ParseSlotsAndClasses
    \/ AttachPropsTable
    \/ AttachTranslations
    \/ GenerateApiTranslations
    \/ GenerateApiPage
    \/ AnnotateComponentDefinition
    \/ Rerun

---------------------------------------------------------------------------
(* The worlds a run starts in *)

ComponentNames == {"Menu", "MenuItem"}
Languages == {"en", "fr", "pt"}
Packages == {"mui-material", "mui-base"}

AllPaths ==
    {TranslationPath(c, l) : c \in ComponentNames, l \in Languages}
    \cup {ApiPagePath(c, x) : c \in ComponentNames, x \in {"json", "js"}}
    \cup {SourcePath(Filename(p, "Menu", x)) : p \in Packages, x \in {"js", "tsx", "d.ts"}}

\* the JavaScript source of a component with the description d in its docblock
JsSource(d) ==
    IF d = <<>> THEN <<Ws, ExpDef("inline", "Menu"), Ws>>
    ELSE <<Ws, Cb(d), Ws, ExpDef("inline", "Menu"), Ws>>

\* declaration files of the usual shapes
TypesDefault == <<Ws, Cb(<<PlainLine>>), Ws, ExpDef("inline", "Menu"), Ws>>
TypesNamed == <<Ws, Cb(<<PlainLine>>), Ws, Decl("var", "Menu"), Ws, ExpNamed("spec", "Menu"), Ws>>
TypesNoExport == <<Ws, Decl("var", "Menu"), Ws>>
TypesTwoBlocks ==
    <<Ws, Cb(<<PlainLine>>), Ws, Cb(<<PlainLine>>), Ws, Decl("var", "Menu"), Ws,
      ExpDef("id", "Menu"), Ws, ExpNamed("spec", "Menu"), Ws>>

TestInfo(forwardsRefTo, spread, themeDefaultProps) ==
    [forwardsRefTo |-> forwardsRefTo, spread |-> spread, themeDefaultProps |-> themeDefaultProps]

BaseEnv ==
    [name |-> "Menu",
     filename |-> Filename("mui-material", "Menu", "js"),
     source |-> JsSource(<<PlainLine>>),      \* the text of filename
     types |-> TypesDefault,                  \* the text of the .d.ts file of a .js file
     existing |-> {},                         \* languages whose translation file exists
     shouldSkip |-> FALSE,
     spread |-> "false",                      \* readFile().spread
     isSystemComponent |-> FALSE,
     factoryParse |-> "ok",                   \* "ok", "none" (no definition found), "error"
     defaultParse |-> "ok",                   \* "ok", "error"
     props |-> <<>>,
     demos |-> <<"d1">>,
     apiPathname |-> "/material-ui",
     test |-> TestInfo("undefined", "undefined", "undefined"),
     inheritance |-> "null",                  \* getInheritance(...): "null" or a name
     slots |-> <<>>,
     classes |-> <<>>,
     skipApiGeneration |-> FALSE,
     languages |-> <<"en", "fr", "pt">>]

InitialFs(e) ==
    [p \in AllPaths |->
        IF p = SourcePath(e.filename) THEN Text(e.source)
        ELSE IF p = SourcePath(typesFilename(e.filename)) THEN Text(e.types)
        ELSE IF p \in {TranslationPath(e.name, l) : l \in e.existing} THEN Manual
        ELSE Absent]

NoTr == [runs |-> <<>>, before |-> <<>>, seeded |-> <<>>, latest |-> <<>>]

InitWith(envs) ==
    /\ env \in envs
    /\ fs = InitialFs(env)
    /\ pc = "start"
    /\ reactApi = EmptyApi
    /\ result = Running
    /\ calls = <<>>
    /\ writes = <<>>
    /\ runs = 0
    /\ first = Snapshot(FALSE, InitialFs(env), EmptyApi, Running)
    /\ tr = NoTr

\* a prop of the flow of control: only its name and whether it normalizes matter
FlowProp(name, fails) == RawProp(name, fails, FALSE, <<>>, "false", "string", "string")

DistinctNames(props) == \A i, j \in 1..Len(props) : i # j => props[i].name # props[j].name

\* the props as Object.entries(reactApi.props) lists them
IsPropList(props) ==
    /\ DistinctNames(props)
    /\ IsJsObject([i \in 1..Len(props) |-> Pair(props[i].name, i)])

FlowProps ==
    {ps \in SeqsUpTo({FlowProp(n, f) : n \in {"a", "B", "0"}, f \in BOOLEAN}, MaxProps) :
        IsPropList(ps)}

DemoLists == SeqsUpTo({"d1", "d2"}, MaxDemos)

\* the worlds of Spec: the flow of control of generateComponentApi
FlowEnvs ==
    {[BaseEnv EXCEPT !.shouldSkip = TRUE, !.skipApiGeneration = s] : s \in BOOLEAN}
    \cup {[BaseEnv EXCEPT !.isSystemComponent = sys, !.factoryParse = f, !.defaultParse = d,
                          !.skipApiGeneration = s] :
            sys \in BOOLEAN, f \in {"ok", "none", "error"}, d \in {"ok", "error"},
            s \in BOOLEAN}
    \cup {[BaseEnv EXCEPT !.demos = ds, !.props = ps, !.skipApiGeneration = s,
                          !.types = t, !.existing = ex,
                          !.filename = Filename(pk[1], "Menu", "js"), !.apiPathname = pk[2]] :
            ds \in DemoLists, ps \in FlowProps, s \in BOOLEAN,
            t \in {TypesDefault, TypesNamed, TypesNoExport, TypesTwoBlocks},
            ex \in {{}, {"fr"}},
            pk \in {<<"mui-material", "/material-ui">>, <<"mui-base", "/base">>}}
    \cup {[BaseEnv EXCEPT !.spread = src, !.test = TestInfo("undefined", t, "undefined"),
                          !.skipApiGeneration = s] :
            src \in {"true", "false", "undefined"},
            t \in {"true", "false", "undefined", "null"}, s \in BOOLEAN}

Init == InitWith(FlowEnvs)

Spec == Init /\ [][Next]_vars

---------------------------------------------------------------------------
(* Properties of the flow of control (Spec) *)

Range(seq) == {seq[i] : i \in 1..Len(seq)}
Called(name) == name \in Range(calls)
Count(seq, x) == Cardinality({i \in 1..Len(seq) : seq[i] = x})

\* the files a run of the component's generation is to emit
TranslationArtifacts ==
    {TranslationPath(env.name, l) : l \in Range(env.languages) \cup {"en"}}
PageArtifacts ==
    {ApiPagePath(env.name, "json")}
    \cup (IF GenerateOnlyJsonFile(reactApi) THEN {} ELSE {ApiPagePath(env.name, "js")})
TypesArtifact == SourcePath(typesFilename(env.filename))

\* C1: generateComponentApi is all-or-nothing: a run that ends in an error has written
\* none of the component's artifacts, and a run that succeeds without skipApiGeneration
\* has written the 'en' translations, the page files and the declaration file, and
\* left every other translation file in place.
C1_AllOrNothing ==
    pc = "done" =>
        /\ result.status = "threw" => writes = <<>>
        /\ (result.status = "returned" /\ ~env.skipApiGeneration) =>
              /\ {TranslationPath(env.name, "en"), TypesArtifact} \cup PageArtifacts
                    \subseteq Range(writes)
              /\ \A p \in TranslationArtifacts : fs[p] # Absent

\* C3: when k >= 1 props fail normalization, attachPropsTable has gone through every
\* prop and the run throws one aggregated error that names the component and exactly
\* the failing props; no props table is assigned, no translations are built and no
\* file is written.
C3_AggregatedPropErrors ==
    LET failing == {i \in 1..Len(env.props) : env.props[i].fails}
    IN  (Called("attachPropsTable") /\ failing # {}) =>
            /\ pc = "done"
            /\ result.status = "threw"
            /\ result.error = "PropErrors"
            /\ result.component = env.name
            /\ Range(result.props) = {env.props[i].name : i \in failing}
            /\ Len(result.props) = Cardinality(failing)
            /\ Count(calls, "createDescribeableProp") = Len(env.props)
            /\ reactApi.propsTable = None
            /\ reactApi.translations = None
            /\ ~Called("attachTranslations")
            /\ writes = <<>>

\* two props fail and a valid prop comes after the first of them
C3_Witness ==
    /\ pc = "done"
    /\ result.error = "PropErrors"
    /\ Len(result.props) = 2
    /\ Len(env.props) = 3
    /\ env.props[1].fails
    /\ ~env.props[2].fails

\* C4: when getDemos returns no demo the run throws an error that names the component,
\* before the test file is parsed, before classes, slots and the props table are built
\* and before any file is written; with a demo this error is never thrown.
C4_MissingDemo ==
    /\ (Called("getDemos") /\ Len(env.demos) = 0) =>
            /\ pc = "done"
            /\ result = Threw("MissingDemo", env.name, <<>>)
            /\ ~Called("parseTest")
            /\ ~Called("parseSlotsAndClasses")
            /\ ~Called("attachPropsTable")
            /\ reactApi.propsTable = None
            /\ writes = <<>>
    /\ Len(env.demos) >= 1 => result.error # "MissingDemo"

C4_Witness ==
    /\ pc = "done"
    /\ result.error = "MissingDemo"
    /\ ~env.skipApiGeneration
    /\ Len(env.props) > 0

\* C9: the spread of the record is three-valued: the test-derived value when that is
\* true or false, the source-derived value when the test-derived value is unset
\* (so unset when both are), and the page JSON carries it as it is: true, false, or
\* left out when it is unset.
C9_SpreadThreeValued ==
    /\ Called("parseTest") =>
            /\ env.test.spread \in {"true", "false"} => reactApi.spread = env.test.spread
            /\ env.test.spread \in {"undefined", "null"} => reactApi.spread = env.spread
    /\ Called("generateApiPage") =>
            LET emitted == fs[ApiPagePath(env.name, "json")].v.spread
            IN  /\ emitted = "true" <=> reactApi.spread = "true"
                /\ emitted = "false" <=> reactApi.spread = "false"
                /\ emitted = "omitted" <=> reactApi.spread = "undefined"

\* a test-derived false overrides a source-derived true and reaches the page JSON
C9_Witness ==
    /\ Called("generateApiPage")
    /\ env.test.spread = "false"
    /\ env.spread = "true"
    /\ fs[ApiPagePath(env.name, "json")].v.spread = "false"

---------------------------------------------------------------------------
(* Props tables (SpecProps) *)

RawWords == {".isRequired", "PropTypes.string"}

\* one prop with every combination of what decides its required flag and its type text
SingleProps ==
    {<<RawProp("a", FALSE, req, raw, ch, ty[1], ty[2])>> :
        req \in BOOLEAN, raw \in SeqsUpTo(RawWords, MaxRaw),
        ch \in {"false", "required", "optional"},
        ty \in {<<"string", "string">>, <<"enum", "'red' | 'blue'">>}}

\* several props that differ in name and required flag, in every order the parser
\* can produce
ManyProps ==
    {ps \in SeqsUpTo({RawProp(n, FALSE, req, <<>>, "false", "string", "string") :
                        n \in PropNames, req \in BOOLEAN}, MaxProps) :
        IsPropList(ps)}

PropsEnvs == {[BaseEnv EXCEPT !.props = ps] : ps \in SingleProps \cup ManyProps}

InitProps == InitWith(PropsEnvs)

SpecProps == InitProps /\ [][Next]_vars

\* the raw prop descriptor of the given name
RawPropOf(name) == CHOOSE d \in Range(env.props) : d.name = name

\* the props of the page JSON, in the order they are emitted
EmittedProps == fs[ApiPagePath(env.name, "json")].v.props

\* C5: the props emitted by generateApiPage are ordered with every required entry
\* before every other entry, and by ascending name inside each of the two groups.
C5_PropsSorted ==
    Called("generateApiPage") =>
        \A i, j \in 1..Len(EmittedProps) :
            i < j =>
                LET a == EmittedProps[i]
                    b == EmittedProps[j]
                IN  /\ b.value.required = "true" => a.value.required = "true"
                    /\ a.value.required = b.value.required
                          => LocaleRank(a.key) < LocaleRank(b.key)

\* the ordering of C5 for the props whose name is not an array index
C5_SortedWithoutIndexNames ==
    (Called("generateApiPage") /\ \A i \in 1..Len(EmittedProps) : ~IsArrayIndex(EmittedProps[i].key))
        => C5_PropsSorted

\* raw ends in the isRequired marker
EndsInIsRequired(raw) == raw # <<>> /\ raw[Len(raw)] = ".isRequired"

\* C7: a prop that normalizes is emitted as required if and only if its descriptor is
\* required, or its raw type signature ends in the isRequired marker, or the chained
\* type is required.
C7_RequiredFlag ==
    reactApi.propsTable # None =>
        \A i \in 1..Len(reactApi.propsTable[1]) :
            LET e == reactApi.propsTable[1][i]
                d == RawPropOf(e.key)
            IN  e.value.required = "true"
                    <=> (d.required \/ EndsInIsRequired(d.raw) \/ d.chained = "required")

\* the flag of C7 with the marker anywhere in the raw signature
C7_RequiredFlagMarkerAnywhere ==
    reactApi.propsTable # None =>
        \A i \in 1..Len(reactApi.propsTable[1]) :
            LET e == reactApi.propsTable[1][i]
                d == RawPropOf(e.key)
            IN  /\ e.value.required \in {"true", "undefined"}
                /\ e.value.required = "true"
                      <=> (d.required \/ ".isRequired" \in Range(d.raw)
                           \/ d.chained = "required")

---------------------------------------------------------------------------
(* Class descriptions (SpecClasses) *)

ClassWords == {"Styles applied to ", RootElement, "dense", " if ", Period}

ClassDefinition(key, description) == [key |-> key, description |-> description]

\* one class with every description of up to MaxWords words, or several classes
ClassLists ==
    {<<ClassDefinition("root", d)>> : d \in SeqsUpTo(ClassWords, MaxWords)}
    \cup SeqsUpTo({ClassDefinition(k, d) :
                      k \in {"root", "dense", ""},
                      d \in {<<"Styles applied to ", RootElement, Period>>,
                             <<"Styles applied to ", RootElement, " if ", "dense", Period>>}},
                  MaxClasses)

ClassesEnvs == {[BaseEnv EXCEPT !.classes = cs] : cs \in ClassLists}

InitClasses == InitWith(ClassesEnvs)

SpecClasses == InitClasses /\ [][Next]_vars

\* description has the form <prefix> TARGET <separator> CONDITION "." with the
\* separator at index q: TARGET holds no separator and no period, CONDITION is not empty
HasConditionForm(description, q) ==
    /\ Len(description) >= 4
    /\ description[1] \in PrefixWords
    /\ q \in 2..(Len(description) - 2)
    /\ description[q] \in SeparatorWords
    /\ description[Len(description)] = Period
    /\ \A i \in 2..(q - 1) : description[i] \notin SeparatorWords \cup {Period}

TargetOf(description, q) == SubSeq(description, 2, q - 1)
ConditionOf(description, q) == SubSeq(description, q + 1, Len(description) - 1)

\* the entry recorded for the class of the given key
RecordedClass(key) ==
    LET cd == reactApi.translations[1].classDescriptions
    IN  cd[CHOOSE i \in 1..Len(cd) : cd[i].key = key].value

\* the last class definition of the given key, which is the one recorded
DefinitionOf(key) ==
    LET ix == {i \in 1..Len(env.classes) : env.classes[i].key = key}
    IN  env.classes[CHOOSE i \in ix : \A j \in ix : j <= i].description

RecordedKeys ==
    IF reactApi.translations = None THEN {}
    ELSE Range(Keys(reactApi.translations[1].classDescriptions))

\* C8 as stated: a description of the form with a condition is recorded as the
\* template with both placeholders and conditions = CONDITION, and a TARGET that is
\* 'the root element' gets no nodeName, with or without a condition.
C8_RootElementWithoutNodeName ==
    \A key \in RecordedKeys :
        LET d == DefinitionOf(key)
            r == RecordedClass(key)
        IN  /\ \A q \in 1..Len(d) :
                  HasConditionForm(d, q) =>
                      /\ r.description = <<d[1], "{{nodeName}}", d[q], "{{conditions}}", Period>>
                      /\ r.conditions = Some(ConditionOf(d, q))
                      /\ TargetOf(d, q) = <<RootElement>> => r.nodeName = None
            /\ (Len(d) = 3 /\ d[1] \in PrefixWords /\ d[2] = RootElement /\ d[3] = Period)
                  => r = ClassCondition(d, None, None)

\* C8, amended: a description of the form with a condition is recorded as the template
\* with both placeholders, conditions = CONDITION and nodeName = TARGET, also when
\* TARGET is 'the root element'; only '<prefix> the root element.', without a
\* condition, is recorded as it is, without a nodeName.
C8_ClassConditions ==
    \A key \in RecordedKeys :
        LET d == DefinitionOf(key)
            r == RecordedClass(key)
        IN  /\ \A q \in 1..Len(d) :
                  HasConditionForm(d, q) =>
                      /\ r.description = <<d[1], "{{nodeName}}", d[q], "{{conditions}}", Period>>
                      /\ r.conditions = Some(ConditionOf(d, q))
                      /\ r.nodeName = Some(TargetOf(d, q))
            /\ (Len(d) = 3 /\ d[1] \in PrefixWords /\ d[2] = RootElement /\ d[3] = Period)
                  => r = ClassCondition(d, None, None)

\* 'Styles applied to the root element if dense.' has been recorded
C8_Witness ==
    /\ "root" \in RecordedKeys
    /\ DefinitionOf("root") = <<"Styles applied to ", RootElement, " if ", "dense", Period>>
    /\ RecordedClass("root").conditions = Some(<<"dense">>)
    /\ RecordedClass("root").nodeName = Some(<<RootElement>>)

---------------------------------------------------------------------------
(* Runs of generateApiTranslations that share the translations directory
   (SpecTranslations): each run writes 'en' and then goes through the languages, and
   the file operations of different runs interleave in any order *)

\* the bundles reactApi.translations of two builds of a component
Bundles ==
    {attachTranslations([EmptyApi EXCEPT !.description = d]) :
        d \in {<<PlainLine>>, <<PlainLine, AbsLine>>}}

TrLanguages == <<"en", "fr", "pt">>

\* a run: its component, its bundle and the step it is at (0: before the 'en' write,
\* i: before round i of languages.forEach, Len(TrLanguages) + 1: finished)
TrRun(name, translations, at) == [name |-> name, translations |-> translations, at |-> at]

NonEnglishPaths ==
    {TranslationPath(c, l) : c \in ComponentNames, l \in Languages \ {"en"}}

InitTranslations ==
    /\ env = BaseEnv
    /\ \E manual \in SUBSET NonEnglishPaths :
          fs = [p \in AllPaths |-> IF p \in manual THEN Manual ELSE Absent]
    /\ pc = "start"
    /\ reactApi = EmptyApi
    /\ result = Running
    /\ calls = <<>>
    /\ writes = <<>>
    /\ runs = 0
    /\ first = Snapshot(FALSE, InitialFs(BaseEnv), EmptyApi, Running)
    /\ tr = [runs |-> <<>>,
             before |-> fs,
             seeded |-> [p \in NonEnglishPaths |-> None],
             latest |-> [c \in ComponentNames |-> None]]

\* a build calls generateApiTranslations(outputDirectory, reactApi, languages)
TrStart ==
    /\ Len(tr.runs) < MaxTrRuns
    /\ \E c \in ComponentNames, b \in Bundles :
          tr' = [tr EXCEPT !.runs = Append(@, TrRun(c, b, 0))]
    /\ UNCHANGED <<env, fs, pc, reactApi, result, calls, writes, runs, first>>

\* writePrettifiedFile(resolveApiDocsTranslationsComponentLanguagePath('en'), ...)
TrWriteEn ==
    \E r \in 1..Len(tr.runs) :
        /\ tr.runs[r].at = 0
        /\ fs' = WriteEnglish(fs, tr.runs[r].name, tr.runs[r].translations).fs
        /\ tr' = [tr EXCEPT !.runs[r].at = 1,
                            !.latest[tr.runs[r].name] = Some(tr.runs[r].translations)]
        /\ UNCHANGED <<env, pc, reactApi, result, calls, writes, runs, first>>

\* one round of languages.forEach; a round that throws ends the run
TrWriteLanguage ==
    \E r \in 1..Len(tr.runs) :
        LET run == tr.runs[r]
        IN  /\ run.at \in 1..Len(TrLanguages)
            /\ LET path == TranslationPath(run.name, TrLanguages[run.at])
                   w == WriteLanguage(fs, run.name, run.translations, TrLanguages[run.at])
               IN  /\ fs' = w.fs
                   /\ tr' = [tr EXCEPT
                          !.runs[r].at = IF w.threw THEN -1 ELSE run.at + 1,
                          !.seeded = IF w.wrote /\ tr.seeded[path] = None
                                     THEN [@ EXCEPT ![path] = Some(run.translations)]
                                     ELSE @]
            /\ UNCHANGED <<env, pc, reactApi, result, calls, writes, runs, first>>

NextTranslations ==
    \/ TrStart
    \/ TrWriteEn
    \/ TrWriteLanguage

SpecTranslations == InitTranslations /\ [][NextTranslations]_vars

TrFinished(run) == run.at = Len(TrLanguages) + 1

\* C2: after any interleaving of runs of generateApiTranslations, a non-English
\* translation file holds what it held before the first run or, when it was absent,
\* the bundle of the first run that created it; no run is aborted by a file that
\* exists, so a finished run leaves every language file of its component in place;
\* the 'en' file holds the bundle of the run that wrote it last.
C2_TranslationsSeededOnce ==
    /\ \A p \in NonEnglishPaths :
          fs[p] = IF tr.before[p] # Absent THEN tr.before[p]
                  ELSE IF tr.seeded[p] # None THEN Json(tr.seeded[p][1])
                  ELSE Absent
    /\ \A r \in 1..Len(tr.runs) :
          /\ tr.runs[r].at # -1
          /\ TrFinished(tr.runs[r]) =>
                \A l \in Languages : fs[TranslationPath(tr.runs[r].name, l)] # Absent
    /\ \A c \in ComponentNames :
          tr.latest[c] # None => fs[TranslationPath(c, "en")] = Json(tr.latest[c][1])

\* two runs for one component with different bundles have finished: one language file
\* was there before, the other was seeded by the first run, and 'en' holds the bundle
\* of the second
C2_Witness ==
    /\ Len(tr.runs) = 2
    /\ TrFinished(tr.runs[1]) /\ TrFinished(tr.runs[2])
    /\ tr.runs[1].name = "Menu" /\ tr.runs[2].name = "Menu"
    /\ tr.runs[1].translations # tr.runs[2].translations
    /\ fs[TranslationPath("Menu", "fr")] = Manual
    /\ tr.before[TranslationPath("Menu", "pt")] = Absent
    /\ fs[TranslationPath("Menu", "pt")] = Json(tr.runs[1].translations)
    /\ fs[TranslationPath("Menu", "en")] = Json(tr.runs[2].translations)

---------------------------------------------------------------------------
(* Declaration files and descriptions (SpecAnnotate) *)

\* the statements and comments a declaration file is made of
Items ==
    {<<Ws>>, <<Cb(<<PlainLine>>)>>,
     <<Decl("var", "Menu"), Ws>>,
     <<ExpDef("id", "Menu"), Ws>>, <<ExpDef("inline", "Menu"), Ws>>,
     <<ExpNamed("spec", "Menu"), Ws>>, <<ExpNamed("spec", "Other"), Ws>>,
     <<ExpNamed("other", "Menu"), Ws>>,
     <<ExpKw, Ws, Decl("fun", "Menu"), Ws>>, <<ExpKw, Ws, Decl("fun", "Other"), Ws>>}

RECURSIVE Flatten(_)
Flatten(items) == IF items = <<>> THEN <<>> ELSE Head(items) \o Flatten(Tail(items))

\* a text the parser accepts: one default export at most, one declaration of a name
\* at most, and an exported identifier is declared in the file
WellFormed(toks) ==
    LET ix == 1..Len(toks)
        declares(i, n) ==
            \/ toks[i].k = "decl" /\ toks[i].name = n
            \/ toks[i].k = "expnamed" /\ toks[i].form = "other" /\ toks[i].name = n
            \/ toks[i].k = "expdef" /\ toks[i].form = "inline" /\ toks[i].name = n
        exports(i, n) ==
            \/ toks[i].k = "expnamed" /\ toks[i].name = n
            \/ toks[i].k = "expkw" /\ toks[InnerDecl(toks, i)].name = n
    IN  /\ Cardinality({i \in ix : toks[i].k = "expdef"}) <= 1
        /\ \A n \in {"Menu", "Other"} :
              /\ Cardinality({i \in ix : declares(i, n)}) <= 1
              /\ Cardinality({i \in ix : exports(i, n)}) <= 1
        /\ \A i \in ix :
              (toks[i].k \in {"expdef", "expnamed"} /\ toks[i].form \in {"id", "spec"}
               /\ toks[i].name = "Menu")
                  => Binding(toks, "Menu") # 0

DeclarationFiles ==
    {f \in {Flatten(items) : items \in SeqsUpTo(Items, MaxItems)} : WellFormed(f)}

\* the trimmed descriptions of a docblock
Descriptions ==
    {d \in SeqsUpTo({PlainLine, RelLine, AbsLine, BlankLine, DemosHeader, ApiHeader},
                    MaxDescLines) : Trim(d) = d}

AnnotateEnvs ==
    \* a .js source next to its .d.ts file
    {[BaseEnv EXCEPT !.types = f, !.filename = Filename(pk[1], "Menu", "js"),
                     !.apiPathname = pk[2]] :
        f \in DeclarationFiles,
        pk \in {<<"mui-material", "/material-ui">>, <<"mui-base", "/base">>}}
    \* a .tsx source, which is its own declaration file
    \cup {[BaseEnv EXCEPT !.source = JsSource(d), !.filename = Filename("mui-material", "Menu", "tsx"),
                          !.inheritance = h] :
            d \in Descriptions, h \in {"null", "Popover"}}

InitAnnotate == InitWith(AnnotateEnvs)

SpecAnnotate == InitAnnotate /\ [][Next]_vars

\* the declaration file the first run found
DeclarationFile == InitialFs(env)[TypesArtifact].v

\* the file holds the exported declaration annotateComponentDefinition is to annotate
HasMatchingExport(toks, isBase, fileName) ==
    \E i \in 1..Len(toks) :
        IF isBase
        THEN \/ toks[i].k = "expnamed" /\ toks[i].name = fileName
             \/ toks[i].k = "expkw" /\ toks[InnerDecl(toks, i)].name = fileName
        ELSE toks[i].k = "expdef"

\* C10: a run that gets to annotateComponentDefinition, and does not stop at more than
\* one leading comment block, ends in the "Don't know where to insert the jsdoc block"
\* error if and only if the declaration file has no matching exported declaration;
\* with one the declaration file is rewritten.
C10_InsertionPoint ==
    (pc = "done" /\ runs = 1 /\ Called("annotateComponentDefinition")
     /\ result.error \notin {"MultipleJsdocBlocks", "TypeError"})
        => LET matching == HasMatchingExport(DeclarationFile, IncludesMuiBase(env.filename),
                                             env.name)
           IN  /\ result.error = "DontKnowWhereToInsert" <=> ~matching
               /\ matching => TypesArtifact \in Range(writes)

\* C6: a second run on the component the first run has annotated leaves the
\* declaration file and the description of the record as the first run left them.
C6_AnnotationIdempotent ==
    (pc = "done" /\ runs >= 2 /\ first.result = Returned)
        => /\ result = Returned
           /\ fs[TypesArtifact] = first.fs[TypesArtifact]
           /\ reactApi.description = first.api.description

\* the idempotence of C6 for a .js source whose declaration file has its range of
\* replacement behind the start of the text
C6_IdempotentAwayFromTheStart ==
    (/\ pc = "done" /\ runs >= 2 /\ first.result = Returned
     /\ env.filename.ext = "js"
     /\ Traverse(DeclarationFile, 1, IncludesMuiBase(env.filename), env.name,
                 Cursor(0, None, "")).start > 0)
        => /\ result = Returned
           /\ fs[TypesArtifact] = first.fs[TypesArtifact]
           /\ reactApi.description = first.api.description

---------------------------------------------------------------------------
(* Where the generated comment lands (SpecAnnotate) *)

\* the nodes that are the exported declaration of the component: the default export
\* or the declaration it names; for a Base file the named export of the file name,
\* the declaration it names, or the exported function and its declaration
ComponentDeclarations(toks, isBase, fileName) ==
    {i \in 1..Len(toks) :
        IF isBase
        THEN \/ toks[i].k = "expnamed" /\ toks[i].form = "other" /\ toks[i].name = fileName
             \/ toks[i].k = "expkw" /\ toks[InnerDecl(toks, i)].name = fileName
             \/ \E e \in 1..Len(toks) :
                   /\ toks[e].k = "expkw"
                   /\ InnerDecl(toks, e) = i /\ toks[i].name = fileName
             \/ \E e \in 1..Len(toks) :
                   /\ toks[e].k = "expnamed" /\ toks[e].form = "spec"
                   /\ toks[e].name = fileName /\ Binding(toks, fileName) = i
        ELSE \/ toks[i].k = "expdef" /\ toks[i].form = "inline"
             \/ \E e \in 1..Len(toks) :
                   /\ toks[e].k = "expdef" /\ toks[e].form = "id"
                   /\ Binding(toks, toks[e].name) = i}

\* the texts that have the block in front of the node t and nothing else changed: the
\* block replaces the single leading comment of t, or stands before t, or before the
\* whitespace character in front of t
AnnotatedAt(toks, t, block) ==
    LET blocks == leadingCommentBlocks(toks, t)
        n == Len(toks)
    IN  IF Len(blocks) = 1
        THEN {[toks EXCEPT ![blocks[1]] = block]}
        ELSE IF Len(blocks) = 0
        THEN {SubSeq(toks, 1, t - 1) \o <<block>> \o SubSeq(toks, t, n)}
             \cup (IF t >= 2 /\ toks[t - 1] = Ws
                   THEN {SubSeq(toks, 1, t - 2) \o <<block>> \o SubSeq(toks, t - 1, n)}
                   ELSE {})
        ELSE {}

\* the first run has rewritten a declaration file that exports the component
AnnotatedComponent ==
    /\ pc = "done" /\ runs = 1 /\ result = Returned
    /\ Called("annotateComponentDefinition")
    /\ ComponentDeclarations(DeclarationFile, IncludesMuiBase(env.filename), env.name) # {}

\* C11: after a successful annotateComponentDefinition the rewritten file is the old
\* file with the generated block in front of the exported declaration of the
\* component, in place of its single leading comment block when it has one, and
\* nothing else changed; the block is not attached to another export.
C11_BlockAtComponent ==
    AnnotatedComponent =>
        \E t \in ComponentDeclarations(DeclarationFile, IncludesMuiBase(env.filename), env.name) :
            fs[TypesArtifact].v \in AnnotatedAt(DeclarationFile, t, Cb(JsdocLines(reactApi)))

\* the placement of C11 for the files that are not Base files and whose range of
\* replacement lies behind the start of the text
C11_DefaultExportAwayFromTheStart ==
    (/\ AnnotatedComponent /\ ~IncludesMuiBase(env.filename)
     /\ Traverse(DeclarationFile, 1, FALSE, env.name, Cursor(0, None, "")).start > 0)
        => \E t \in ComponentDeclarations(DeclarationFile, FALSE, env.name) :
              fs[TypesArtifact].v \in AnnotatedAt(DeclarationFile, t, Cb(JsdocLines(reactApi)))

---------------------------------------------------------------------------
(* The type of a props-table entry (SpecProps) *)

\* C12: an entry of the props table, and of the page JSON, has the raw type name as
\* type.name; its type.description is left out when the rendered type text is the raw
\* type name, and is the rendered text otherwise.
C12_TypeDescriptionDedup ==
    /\ reactApi.propsTable # None =>
          \A i \in 1..Len(reactApi.propsTable[1]) :
              LET e == reactApi.propsTable[1][i]
                  d == RawPropOf(e.key)
              IN  /\ e.value.typeName = d.typeName
                  /\ e.value.typeDescription =
                        IF d.rendered = d.typeName THEN None ELSE Some(d.rendered)
    /\ Called("generateApiPage") =>
          \A i \in 1..Len(EmittedProps) :
              LET e == EmittedProps[i]
                  d == RawPropOf(e.key)
              IN  /\ e.value.typeName = d.typeName
                  /\ e.value.typeDescription =
                        IF d.rendered = d.typeName THEN None ELSE Some(d.rendered)

\* the page of a component has been written whose prop a has the rendered type
\* text 'string', which is its type name, and no type.description
C12_Witness ==
    /\ Called("generateApiPage")
    /\ Len(EmittedProps) = 1
    /\ RawPropOf("a").rendered = "string" /\ RawPropOf("a").typeName = "string"
    /\ EmittedProps[1].key = "a"
    /\ EmittedProps[1].value.typeName = "string"
    /\ EmittedProps[1].value.typeDescription = None

---------------------------------------------------------------------------
(* The parse strategy (Spec) *)

\* the docgenParse calls of the current run, in order
ParseAttempts ==
    SelectSeq(calls, LAMBDA c : c \in {"docgenParse:factory", "docgenParse:default"})

\* C13: a run that got past readFile parses a system component with the factory lookup
\* first and with the default detection if and only if the factory lookup ended in
\* 'No suitable component definition found.'; another failure of the factory lookup
\* and a failure of the default detection end the run in that error; another
\* component is parsed with the default detection only; there are two attempts at most.
C13_ParseStrategy ==
    (pc \notin {"start", "parse"} /\ ~env.shouldSkip) =>
        LET A == ParseAttempts
        IN  /\ Len(A) \in {1, 2}
            /\ Count(A, "docgenParse:default") <= 1
            /\ Count(A, "docgenParse:factory") <= 1
            /\ IF env.isSystemComponent
               THEN /\ A[1] = "docgenParse:factory"
                    /\ "docgenParse:default" \in Range(A) <=> env.factoryParse = "none"
                    /\ env.factoryParse = "error" =>
                          /\ pc = "done"
                          /\ result = Threw("DocgenError", "", <<>>)
               ELSE A = <<"docgenParse:default">>
            /\ ("docgenParse:default" \in Range(A) /\ env.defaultParse = "error") =>
                  /\ pc = "done"
                  /\ result = Threw("DocgenError", "", <<>>)

\* the factory lookup of a system component found no definition and the default
\* detection has parsed it
C13_Witness ==
    /\ env.isSystemComponent /\ env.factoryParse = "none" /\ env.defaultParse = "ok"
    /\ ParseAttempts = <<"docgenParse:factory", "docgenParse:default">>
    /\ pc = "describe"

---------------------------------------------------------------------------
(* The keys of the props table (SpecProps) *)

ParsedPropNames == {env.props[i].name : i \in 1..Len(env.props)}

\* C14: when no prop fails normalization, the keys of the props table are the names of
\* the props the parser returned, and they are the keys of translations.propDescriptions.
C14_PropsTableKeys ==
    (reactApi.translations # None /\ \A i \in 1..Len(env.props) : ~env.props[i].fails) =>
        /\ Range(Keys(reactApi.propsTable[1])) = ParsedPropNames
        /\ Range(Keys(reactApi.propsTable[1]))
              = Range(Keys(reactApi.translations[1].propDescriptions))

\* the keys of C14 for a component without a prop named 'undefined'
C14_KeysWithoutUndefinedName ==
    (/\ reactApi.translations # None
     /\ \A i \in 1..Len(env.props) : ~env.props[i].fails /\ env.props[i].name # "undefined") =>
        /\ Range(Keys(reactApi.propsTable[1])) = ParsedPropNames
        /\ Range(Keys(reactApi.propsTable[1]))
              = Range(Keys(reactApi.translations[1].propDescriptions))

---------------------------------------------------------------------------
(* Order and gating of the side effects (Spec) *)

\* the place of a path in the order of the writes of a run
WriteStage(p) ==
    IF p.tree = "translations" THEN 1
    ELSE IF p = ApiPagePath(env.name, "json") THEN 2
    ELSE IF p = ApiPagePath(env.name, "js") THEN 3
    ELSE 4

\* C15: a skipped component returns null after readFile alone, without a parse, a
\* query for demos or a write; with skipApiGeneration the record is built and checked
\* as ever and returned, and nothing is written; otherwise a write happens only once
\* the props table and the translations are built, and the writes come in the order
\* translations ('en' first), page JSON, page module (not for '/base'), declaration file.
C15_SideEffectOrder ==
    /\ env.shouldSkip =>
          /\ writes = <<>>
          /\ calls \in {<<>>, <<"readFile">>}
          /\ pc = "done" => result = ReturnedNull
    /\ (env.skipApiGeneration /\ ~env.shouldSkip) =>
          /\ writes = <<>>
          /\ (pc = "done" /\ result = Returned) =>
                /\ reactApi.propsTable # None /\ reactApi.translations # None
                /\ reactApi.demos # <<>>
          /\ (pc = "done" /\ Called("getDemos") /\ env.demos = <<>>) =>
                result = Threw("MissingDemo", env.name, <<>>)
          /\ (pc = "done" /\ Called("attachPropsTable")
              /\ \E i \in 1..Len(env.props) : env.props[i].fails) =>
                result.error = "PropErrors"
    /\ writes # <<>> =>
          /\ ~env.shouldSkip /\ ~env.skipApiGeneration
          /\ reactApi.propsTable # None /\ reactApi.translations # None
          /\ writes[1] = TranslationPath(env.name, "en")
          /\ \A i, j \in 1..Len(writes) :
                i < j => /\ WriteStage(writes[i]) <= WriteStage(writes[j])
                         /\ writes[i] # writes[j]
          /\ ApiPagePath(env.name, "js") \in Range(writes) => env.apiPathname # "/base"
    /\ (pc = "done" /\ result = Returned /\ ~env.skipApiGeneration) =>
          /\ writes[Len(writes)] = TypesArtifact
          /\ ApiPagePath(env.name, "json") \in Range(writes)
          /\ ApiPagePath(env.name, "js") \in Range(writes) <=> env.apiPathname # "/base"

\* a Base component has been generated: translations, page JSON and the declaration
\* file are written in this order, without a page module
C15_Witness ==
    /\ pc = "done" /\ result = Returned /\ ~env.skipApiGeneration
    /\ env.apiPathname = "/base"
    /\ Len(writes) >= 3
    /\ writes[1] = TranslationPath(env.name, "en")
    /\ writes[Len(writes) - 1] = ApiPagePath(env.name, "json")
    /\ writes[Len(writes)] = TypesArtifact

====
